---- MODULE Spec2Model ----
(***************************************************************************)
(* A model of the hlist crate (src/src/lib.rs): the heterogeneous list     *)
(* Nil / Cons<H, T>, HList::push, the type-level indices Here / There<I>,  *)
(* and the trait Find<T, I> with its two impls for Cons.                   *)
(*                                                                         *)
(* A list value is a sequence of items, head first; an item is a value     *)
(* together with its Rust type.  The static type of the list is kept       *)
(* separately in `shape` (the chain of Head types of Cons<..>), because     *)
(* trait resolution reads the type and never the value.  A reference into  *)
(* the list is the path of field projections that get / get_mut build:     *)
(* <<1, 1, 0>> is &self.1.1.0.                                             *)
(***************************************************************************)
EXTENDS Integers, Sequences, FiniteSets, TLC

\* ---- bounds -------------------------------------------------------------
MaxLen == 3
MaxVal == 1

\* ---- types and values ---------------------------------------------------
\* The element types of the list the tests build: Nil.push(5i32).push("Foo").
Types == {"i32", "str"}

\* A value of a type: the type and one of a few payloads.
Items == [ty : Types, val : 0..MaxVal]

ItemsOf(T) == {it \in Items : it.ty = T}

\* ---- the list ADT ---------------------------------------------------------
\* pub struct Nil;
Nil == <<>>

\* pub struct Cons<H, T>(pub H, pub T);
Cons(H, T) == <<H>> \o T

\* Field .0 and field .1 of a Cons.
Field0(c) == Head(c)
Field1(c) == Tail(c)

push_append(self, item) == self \o <<item>>

\* fn push<N>(self, item: N) -> Cons<N, Self> { Cons(item, self) }
push(self, item) == Cons(item, self)

\* The return type of push: Cons<N, Self>.
push_type(Self, N) == Cons(N, Self)

\* ---- indices --------------------------------------------------------------
\* pub enum Here {}            -- index 0
Here == 0

\* pub struct There<T>(..)     -- 1 + T
There(I) == I + 1

\* The TailIndex of an index There<TailIndex>.
TailIndex(I) == CHOOSE J \in 0..I : There(J) = I

\* The indices a request may name: every position of the longest list and
\* one past it.
Index == 0..MaxLen

\* ---- trait resolution -----------------------------------------------------
RECURSIVE Find_nocheck(_, _, _)
Find_nocheck(L, T, I) ==
    IF L = Nil THEN FALSE
    ELSE IF I = Here THEN TRUE
    ELSE Find_nocheck(Field1(L), T, TailIndex(I))

RECURSIVE Find_skipless(_, _, _)
Find_skipless(L, T, I) ==
    IF L = Nil THEN FALSE
    ELSE Field0(L) = T \/ (I # Here /\ Find_skipless(Field1(L), T, TailIndex(I)))

\* Is Find<T, I> implemented for the list type L?
\*   impl<T, Tail> Find<T, Here> for Cons<T, Tail>
\*   impl<Head, T, Tail, TailIndex> Find<T, There<TailIndex>> for Cons<Head, Tail>
\*       where Tail: Find<T, TailIndex>
\* and no impl for Nil.
RECURSIVE Find(_, _, _)
Find(L, T, I) ==
    IF L = Nil THEN FALSE
    ELSE IF I = Here THEN Field0(L) = T
    ELSE Find(Field1(L), T, TailIndex(I))

\* The indices the compiler can choose for a request that names only T.
Candidates(L, T) == {I \in Index : Find(L, T, I)}

\* Inference of I: it is determined when exactly one index satisfies the
\* bound, and the request is rejected (the program does not build) otherwise.
Infer(L, T) ==
    LET c == Candidates(L, T)
    IN  IF Cardinality(c) = 1 THEN c ELSE {}

\* ---- get / get_mut --------------------------------------------------------
get_head(self, I) == [ref |-> <<0>>, steps |-> 0]

\* Find::get.  Here: &self.0.  There<TailIndex>: self.1.get().
\* The result is the reference and the number of recursive calls made.
RECURSIVE get(_, _)
get(self, I) ==
    IF I = Here THEN [ref |-> <<0>>, steps |-> 0]
    ELSE LET r == get(Field1(self), TailIndex(I))
         IN  [ref |-> <<1>> \o r.ref, steps |-> r.steps + 1]

get_mut_head(self, I) == [ref |-> <<0>>, steps |-> 0]

\* Find::get_mut.  Here: &mut self.0.  There<TailIndex>: self.1.get_mut().
RECURSIVE get_mut(_, _)
get_mut(self, I) ==
    IF I = Here THEN [ref |-> <<0>>, steps |-> 0]
    ELSE LET r == get_mut(Field1(self), TailIndex(I))
         IN  [ref |-> <<1>> \o r.ref, steps |-> r.steps + 1]

\* *r for a reference r into self.
RECURSIVE Deref(_, _)
Deref(self, ref) ==
    IF Head(ref) = 0 THEN Field0(self)
    ELSE Deref(Field1(self), Tail(ref))

RECURSIVE Store_all(_, _, _)
Store_all(self, ref, x) ==
    IF Head(ref) = 0 THEN Cons(x, Field1(self))
    ELSE Cons(x, Store_all(Field1(self), Tail(ref), x))

\* *r = x for a mutable reference r into self.
RECURSIVE Store(_, _, _)
Store(self, ref, x) ==
    IF Head(ref) = 0 THEN Cons(x, Field1(self))
    ELSE Cons(Field0(self), Store(Field1(self), Tail(ref), x))

\* ---- state ----------------------------------------------------------------
VARIABLES
    list,      \* the list value, head first
    shape,     \* its static type: the Head types of the Cons chain
    pushes,    \* how many push calls built it
    pushedTy,  \* history: the type of each pushed item, in push order
    hist,      \* history: per push, the item pushed or last written there
    last       \* the last request and its outcome

vars == <<list, shape, pushes, pushedTy, hist, last>>

NoItem == [ty |-> "none", val |-> 0]

Request(op, T, inferred, idx, ok, r, v) ==
    [op |-> op, T |-> T, inferred |-> inferred, idx |-> idx, ok |-> ok,
     ref |-> r.ref, steps |-> r.steps, val |-> v]

NoRef == [ref |-> <<>>, steps |-> 0]

Init ==
    /\ list = Nil
    /\ shape = Nil
    /\ pushes = 0
    /\ pushedTy = <<>>
    /\ hist = <<>>
    /\ last = Request("none", "none", FALSE, {}, TRUE, NoRef, NoItem)

\* list = list.push(item)
Push(item) ==
    /\ Len(list) < MaxLen
    /\ list' = push(list, item)
    /\ shape' = push_type(shape, item.ty)
    /\ pushes' = pushes + 1
    /\ pushedTy' = Append(pushedTy, item.ty)
    /\ hist' = Append(hist, item)
    /\ last' = Request("push", item.ty, FALSE, {}, TRUE, NoRef, item)

\* The outcome of `*list.get()` for target type T and the index set idx the
\* request resolved to (empty or unresolvable: the request is rejected).
GetOutcome(T, inferred, idx) ==
    IF \E I \in idx : Find(shape, T, I)
    THEN LET I == CHOOSE J \in idx : Find(shape, T, J)
             r == get(list, I)
         IN  Request("get", T, inferred, idx, TRUE, r, Deref(list, r.ref))
    ELSE Request("get", T, inferred, idx, FALSE, NoRef, NoItem)

\* let a: T = *Find::<T, I>::get(&list);
Get(T, I) ==
    /\ last' = GetOutcome(T, FALSE, {I})
    /\ UNCHANGED <<list, shape, pushes, pushedTy, hist>>

\* let a: T = *list.get();        (I left to inference)
GetInferred(T) ==
    /\ last' = GetOutcome(T, TRUE, Infer(shape, T))
    /\ UNCHANGED <<list, shape, pushes, pushedTy, hist>>

\* The effect of `*list.get_mut() = x` for x: T and the index set idx.
GetMutEffect(T, inferred, idx, x) ==
    IF \E I \in idx : Find(shape, T, I)
    THEN LET I == CHOOSE J \in idx : Find(shape, T, J)
             r == get_mut(list, I)
         IN  /\ list' = Store(list, r.ref, x)
             /\ hist' = [hist EXCEPT ![Len(hist) - I] = x]
             /\ last' = Request("get_mut", T, inferred, idx, TRUE, r, x)
    ELSE /\ last' = Request("get_mut", T, inferred, idx, FALSE, NoRef, NoItem)
         /\ UNCHANGED <<list, hist>>

\* *Find::<T, I>::get_mut(&mut list) = x;
GetMut(T, I, x) ==
    /\ GetMutEffect(T, FALSE, {I}, x)
    /\ UNCHANGED <<shape, pushes, pushedTy>>

\* *list.get_mut() = x;           (I left to inference)
GetMutInferred(T, x) ==
    /\ GetMutEffect(T, TRUE, Infer(shape, T), x)
    /\ UNCHANGED <<shape, pushes, pushedTy>>

Next ==
    \/ \E item \in Items : Push(item)
    \/ \E T \in Types, I \in Index : Get(T, I)
    \/ \E T \in Types : GetInferred(T)
    \/ \E T \in Types, I \in Index : \E x \in ItemsOf(T) : GetMut(T, I, x)
    \/ \E T \in Types : \E x \in ItemsOf(T) : GetMutInferred(T, x)

Spec == Init /\ [][Next]_vars

\* Programs that only build a list and read it.
NextBuild ==
    \/ \E item \in Items : Push(item)
    \/ \E T \in Types, I \in Index : Get(T, I)
    \/ \E T \in Types : GetInferred(T)

SpecBuild == Init /\ [][NextBuild]_vars

\* ---- vocabulary of the properties -----------------------------------------
\* Positions count from the head: 0 is the most recently pushed element.
Positions(l) == 0..(Len(l) - 1)

At(l, k) == l[k + 1]

\* What get yields at position k: the item behind the reference it returns.
Read(l, k) == Deref(l, get(l, k).ref)

\* How many slots of the list type hold a T.
CountType(sh, T) == Cardinality({k \in Positions(sh) : At(sh, k) = T})

\* The position of the occurrence of T closest to the head.
Leftmost(sh, T) ==
    CHOOSE k \in Positions(sh) :
        At(sh, k) = T /\ \A j \in Positions(sh) : At(sh, j) = T => k <= j

\* The reference k steps into the tail and then the head: .1 .1 ... .0
Path(k) == [i \in 1..(k + 1) |-> IF i = k + 1 THEN 0 ELSE 1]

TypesOf(l) == [i \in 1..Len(l) |-> l[i].ty]

IsLookup == last.op \in {"get", "get_mut"}

\* ---- C1 -------------------------------------------------------------------
\* C1: in a list built by push calls alone, get at every valid position k
\* returns the item pushed at that slot: position 0 the last pushed item,
\* position n-1 the first pushed one (hist holds the pushed items in push
\* order).
C1_RoundTrip ==
    /\ \A k \in Positions(list) : Read(list, k) = hist[Len(hist) - k]
    /\ (last.op = "get" /\ last.ok) =>
          \A k \in last.idx : last.val = hist[pushes - k]

C1_Witness ==
    /\ last.op = "get" /\ last.ok /\ ~last.inferred
    /\ pushes = 3 /\ last.idx = {2}
    /\ last.val = hist[1]
    /\ hist[1] # hist[2] /\ hist[1] # hist[3]

\* ---- C2 -------------------------------------------------------------------
\* C2: after a write of x through get_mut at p, get at p returns x and get at
\* every other position returns what it returned before; after any sequence
\* of writes every slot reads as the last item written to it (or the item
\* pushed there when none was written).
C2_WriteStep ==
    (last'.op = "get_mut" /\ last'.ok) =>
        /\ Len(list') = Len(list)
        /\ \A p \in last'.idx :
              /\ Read(list', p) = last'.val
              /\ \A q \in Positions(list) \ {p} : Read(list', q) = Read(list, q)

C2_LastWriteWins ==
    \A k \in Positions(list) : Read(list, k) = hist[Len(hist) - k]

C2_MutationFrame == [](C2_LastWriteWins) /\ [][C2_WriteStep]_vars

C2_Witness ==
    /\ last.op = "get_mut" /\ last.ok
    /\ Len(list) = 3 /\ last.idx = {1}
    /\ last.val.val = 1
    /\ Read(list, 1) = last.val
    /\ Read(list, 0).val = 0 /\ Read(list, 2).val = 0

\* ---- C3 -------------------------------------------------------------------
\* C3: push never fails, and the list it returns has the item as its head
\* and the original list as its tail: one element longer, every old element
\* one position further from the head with its value unchanged, whether or
\* not the item's type was already present.
C3_PushStep ==
    (pushes' # pushes) =>
        /\ last'.op = "push" /\ last'.ok
        /\ Field0(list') = last'.val
        /\ Field1(list') = list
        /\ Len(list') = Len(list) + 1
        /\ Read(list', 0) = last'.val
        /\ \A k \in Positions(list) : Read(list', k + 1) = Read(list, k)
        /\ shape' = <<last'.val.ty>> \o shape

C3_PushNeverFails ==
    Len(list) < MaxLen => \A item \in Items : ENABLED Push(item)

C3_Push == [](C3_PushNeverFails) /\ [][C3_PushStep]_vars

C3_Witness ==
    /\ last.op = "push" /\ last.ok
    /\ Len(list) = 3
    /\ At(list, 0) = last.val
    /\ At(shape, 0) = At(shape, 2)
    /\ At(list, 0) # At(list, 2)

\* ---- C4 -------------------------------------------------------------------
\* C4: when the list holds exactly one element of type T, a get or get_mut
\* that names only T resolves to exactly one position, the one of that
\* element, and reaches it, wherever it sits.
C4_UniqueInference ==
    /\ \A T \in Types :
          CountType(shape, T) = 1 => Infer(shape, T) = {Leftmost(shape, T)}
    /\ (IsLookup /\ last.inferred /\ CountType(shape, last.T) = 1) =>
          /\ last.ok
          /\ Cardinality(last.idx) = 1
          /\ \A k \in last.idx :
                /\ k \in Positions(list)
                /\ At(shape, k) = last.T
                /\ last.ref = Path(k)
                /\ At(list, k) = last.val

C4_Witness ==
    /\ last.op = "get" /\ last.inferred /\ last.ok
    /\ Len(list) = 3 /\ last.idx = {1}
    /\ CountType(shape, last.T) = 1
    /\ last.val = At(list, 1)

\* ---- C5 -------------------------------------------------------------------
\* C5: with several elements of one type, every occurrence is reached through
\* its own explicit position: Here yields the one pushed last, There<Here>
\* the one pushed before it, and no two positions yield the same slot.
C5_DuplicatesByPosition ==
    /\ \A i, j \in Positions(shape) :
          At(shape, i) = At(shape, j) =>
              /\ Find(shape, At(shape, i), i)
              /\ Read(list, i) = At(list, i)
              /\ (i # j => get(list, i).ref # get(list, j).ref)
    /\ (last.op = "get" /\ ~last.inferred /\ last.ok
            /\ CountType(shape, last.T) >= 2) =>
          \A k \in last.idx :
              last.val = At(list, k) /\ last.val = hist[pushes - k]

C5_Witness ==
    /\ last.op = "get" /\ ~last.inferred /\ last.ok
    /\ last.idx = {1}
    /\ At(shape, 0) = last.T /\ At(shape, 1) = last.T
    /\ At(list, 0) # At(list, 1)
    /\ last.val = At(list, 1)

\* ---- C6 -------------------------------------------------------------------
\* C6: a request (T, I) resolves if and only if I is a position of the list
\* and the slot there has type exactly T; so nothing resolves against Nil,
\* past the end, or at a slot of another type.  A resolved request yields an
\* item of type T; a rejected one accesses nothing.
C6_Resolvable ==
    /\ \A T \in Types, I \in Index :
          Find(shape, T, I) <=> (I \in Positions(shape) /\ At(shape, I) = T)
    /\ (IsLookup /\ ~last.inferred) =>
          /\ last.ok <=>
                \A I \in last.idx : I \in Positions(shape) /\ At(shape, I) = last.T
          /\ last.ok => last.val.ty = last.T /\ \A I \in last.idx : last.ref = Path(I)
          /\ ~last.ok => last.ref = <<>> /\ last.val = NoItem

C6_Witness ==
    /\ last.op = "get" /\ ~last.inferred /\ ~last.ok
    /\ last.idx = {Here}
    /\ Len(shape) = 2
    /\ At(shape, 0) # last.T /\ At(shape, 1) = last.T

\* ---- C7 -------------------------------------------------------------------
\* C7: a request that names only T resolves exactly when the list holds one
\* element of type T; with none or with several it is rejected and no slot
\* is chosen.
C7_AmbiguousRejected ==
    /\ \A T \in Types : (Infer(shape, T) # {}) <=> (CountType(shape, T) = 1)
    /\ (IsLookup /\ last.inferred) =>
          /\ last.ok <=> (CountType(shape, last.T) = 1)
          /\ (CountType(shape, last.T) # 1) =>
                last.idx = {} /\ last.ref = <<>> /\ last.val = NoItem

C7_Witness ==
    /\ last.op = "get_mut" /\ last.inferred /\ ~last.ok
    /\ CountType(shape, last.T) = 2
    /\ Len(list) = 3

\* ---- C8 -------------------------------------------------------------------
\* C8 as stated: with more than one element of the requested type T, a
\* resolved request for T yields the occurrence closest to the head.
C8_LeftmostWins ==
    (IsLookup /\ last.ok /\ CountType(shape, last.T) > 1) =>
        /\ last.ref = Path(Leftmost(shape, last.T))
        /\ \A k \in last.idx : k = Leftmost(shape, last.T)

\* C8 as amended: with more than one element of type T, a request that names
\* only T is rejected, and a request with an explicit position yields the
\* element at that position, whichever occurrence it is.
C8_StatedPositionWins ==
    (IsLookup /\ CountType(shape, last.T) > 1) =>
        /\ last.inferred => ~last.ok
        /\ last.ok =>
              \A k \in last.idx :
                  /\ At(shape, k) = last.T
                  /\ last.ref = Path(k)
                  /\ last.val = At(list, k)

C8_Witness ==
    /\ last.op = "get" /\ last.ok /\ ~last.inferred
    /\ CountType(shape, last.T) > 1
    /\ \E k \in last.idx : k # Leftmost(shape, last.T)
    /\ last.val # At(list, Leftmost(shape, last.T))

\* ---- C9 -------------------------------------------------------------------
\* C9: a resolved get or get_mut at position k makes exactly k recursive
\* calls, each into the tail, and returns the head of the node it reaches;
\* the walk stays inside the list, and get and get_mut at one position
\* return the same place.
C9_StructuralWalk ==
    /\ \A T \in Types, I \in Index :
          Find(shape, T, I) =>
              /\ get(list, I) = get_mut(list, I)
              /\ get(list, I).steps = I
              /\ get(list, I).ref = Path(I)
    /\ (IsLookup /\ last.ok) =>
          \A k \in last.idx :
              /\ last.steps = k
              /\ last.ref = Path(k)
              /\ k < Len(list)
              /\ Len(last.ref) <= Len(list)

C9_Witness ==
    /\ last.op = "get_mut" /\ last.ok
    /\ last.steps = 2
    /\ last.ref = <<1, 1, 0>>

\* ---- C10 ------------------------------------------------------------------
\* C10: the list is as long as the number of pushes and every slot has the
\* type of the item pushed there; get changes nothing of the list, and a
\* write through get_mut changes the value of the addressed slot only,
\* leaving the length and every slot type as they were.
C10_Shape ==
    /\ Len(list) = pushes
    /\ Len(shape) = pushes
    /\ \A k \in Positions(list) :
          At(list, k).ty = At(shape, k) /\ At(shape, k) = pushedTy[pushes - k]

C10_Step ==
    /\ last'.op = "get" => UNCHANGED <<list, shape, pushes>>
    /\ last'.op = "get_mut" =>
          /\ UNCHANGED <<shape, pushes>>
          /\ Len(list') = Len(list)
          /\ TypesOf(list') = TypesOf(list)
          /\ \A k \in Positions(list) :
                At(list', k) # At(list, k) => (last'.ok /\ k \in last'.idx)

C10_ShapeInvariant == [](C10_Shape) /\ [][C10_Step]_vars

C10_Witness ==
    /\ last.op = "get_mut" /\ last.ok
    /\ pushes = 3 /\ last.idx = {2}
    /\ At(list, 2) = last.val
    /\ At(list, 2).val # At(list, 1).val
    /\ At(shape, 2) # At(shape, 0)

====
